---- MODULE Spec2Model ----
(***************************************************************************)
(* Model of src/bloom/bloom.hpp: the LevelDB-style Bloom filter (32-bit    *)
(* seeded hash, probe-count derivation, CreateFilter, KeyMayMatch).        *)
(*                                                                         *)
(* Representation of machine integers.                                     *)
(*  - uint32_t values are pairs <<hi, lo>> of 16-bit halves (value =       *)
(*    hi * 2^16 + lo); every operation on them is carried out modulo 2^32  *)
(*    exactly as the C++ unsigned arithmetic does.                         *)
(*  - size_t values are kept as the integer that is congruent to them      *)
(*    modulo 2^64 and lies in the signed range (the int64 reading of the   *)
(*    same 64 bits): a value v < 0 stands for the size_t 2^64 + v.  All    *)
(*    size_t values the model meets have a magnitude far below 2^31, so    *)
(*    +, * on these representatives are exact modulo 2^64; the unsigned    *)
(*    comparisons and the unsigned division are SizeLess and SizeDiv8.     *)
(*    (size_t is 64 bits wide, as on every LP64 build.)                    *)
(*  - a char is its byte value 0..255; the conversion of a (signed) char   *)
(*    to size_t is CharToSize.                                             *)
(***************************************************************************)
EXTENDS Integers, Sequences, FiniteSets, TLC

(***************************************************************************)
(* 16-bit and 32-bit arithmetic                                            *)
(***************************************************************************)
\* 2^e for 0 <= e <= 16
Pow2(e) == << 1, 2, 4, 8, 16, 32, 64, 128, 256, 512, 1024, 2048, 4096, 8192,
              16384, 32768, 65536 >>[e + 1]

\* 2^16: a uint32_t is hi * W16 + lo
W16 == Pow2(16)

RECURSIVE Xor16(_, _, _)
\* bitwise exclusive or of the low nbits bits of a and b
Xor16(a, b, nbits) ==
    IF nbits = 0 THEN 0
    ELSE (((a % 2) + (b % 2)) % 2) + 2 * Xor16(a \div 2, b \div 2, nbits - 1)

RECURSIVE Or16(_, _, _)
\* bitwise or of the low nbits bits of a and b
Or16(a, b, nbits) ==
    IF nbits = 0 THEN 0
    ELSE (IF a % 2 = 1 \/ b % 2 = 1 THEN 1 ELSE 0)
         + 2 * Or16(a \div 2, b \div 2, nbits - 1)

\* byte & (1 << bit)
AndBit(byte, bit) == ((byte \div Pow2(bit)) % 2) * Pow2(bit)

\* byte | (1 << bit)
OrBit(byte, bit) == byte + Pow2(bit) - AndBit(byte, bit)

Xor32(a, b) == << Xor16(a[1], b[1], 16), Xor16(a[2], b[2], 16) >>
Or32(a, b)  == << Or16(a[1], b[1], 16), Or16(a[2], b[2], 16) >>

\* a + b modulo 2^32
Add32(a, b) ==
    LET lo == a[2] + b[2]
    IN  << (a[1] + b[1] + (lo \div W16)) % W16, lo % W16 >>

\* the full 32-bit product of two 16-bit numbers, as <<hi, lo>>
Mul16(x, y) ==
    LET p1 == x * (y % 256)
        p2 == x * (y \div 256)
        t  == ((p2 % 256) * 256) + p1
    IN  << (p2 \div 256) + (t \div W16), t % W16 >>

\* a * b modulo 2^32
Mul32(a, b) ==
    LET low   == Mul16(a[2], b[2])
        cross == Mul16(a[1], b[2])[2] + Mul16(a[2], b[1])[2]
    IN  << (low[1] + cross) % W16, low[2] >>

\* a >> s on 32 bits, 0 <= s < 32
Shr32(a, s) ==
    IF s >= 16 THEN << 0, a[1] \div Pow2(s - 16) >>
    ELSE << a[1] \div Pow2(s),
            ((a[1] % Pow2(s)) * Pow2(16 - s)) + (a[2] \div Pow2(s)) >>

\* a << s on 32 bits (bits shifted out are lost), 0 <= s < 16
Shl32(a, s) ==
    << ((a[1] % Pow2(16 - s)) * Pow2(s)) + (a[2] \div Pow2(16 - s)),
       (a[2] % Pow2(16 - s)) * Pow2(s) >>

\* a % d for a 32-bit a and a divisor 0 < d < 2^15
Mod32(a, d) == (((a[1] % d) * (W16 % d)) + (a[2] % d)) % d

(***************************************************************************)
(* DecodeFixed32 and Hash                                                  *)
(***************************************************************************)
\* the four bytes at offset pos (0-based) of data as one little-endian word
DecodeFixed32(data, pos) ==
    << (data[pos + 4] * 256) + data[pos + 3], (data[pos + 2] * 256) + data[pos + 1] >>

m == << 50852, 42899 >>          \* 0xc6a4a793
r == 24

\* one round of the four-bytes-at-a-time loop
HashWord(h, w) ==
    LET h1 == Mul32(Add32(h, w), m)
    IN  Xor32(h1, Shr32(h1, 16))

\* the switch on the 0..3 bytes left at offset pos, with its fall-through
HashTail(h, data, pos) ==
    LET left == Len(data) - pos
        h3 == IF left >= 3 THEN Add32(h, << data[pos + 3], 0 >>) ELSE h
        h2 == IF left >= 2 THEN Add32(h3, << 0, data[pos + 2] * 256 >>) ELSE h3
        h1 == Mul32(Add32(h2, << 0, data[pos + 1] >>), m)
    IN  IF left = 0 THEN h ELSE Xor32(h1, Shr32(h1, r))

RECURSIVE HashLoop(_, _, _)
HashLoop(h, data, pos) ==
    IF pos + 4 <= Len(data)
    THEN HashLoop(HashWord(h, DecodeFixed32(data, pos)), data, pos + 4)
    ELSE HashTail(h, data, pos)

Hash(data, seed) ==
    HashLoop(Xor32(seed, Mul32(<< 0, Len(data) >>, m)), data, 0)

BloomSeed == << 48287, 7476 >>   \* 0xbc9f1d34

\* The keys of the model.  A string key is its bytes ("a", "ab", "hello"); a
\* uint64_t key is the 8 bytes of its object representation (1 and
\* 0x0102030405060708, little-endian).
StringKeys == { <<97>>, <<97, 98>>, <<104, 101, 108, 108, 111>> }
U64Keys == { <<1, 0, 0, 0, 0, 0, 0, 0>>, <<8, 7, 6, 5, 4, 3, 2, 1>> }

\* Hash of every key of the model, computed once
HashTable == [key \in StringKeys \cup U64Keys |-> Hash(key, BloomSeed)]

\* both BloomHash overloads: Hash(bytes of the key, 0xbc9f1d34)
BloomHash(key) == HashTable[key]

\* delta = (h >> 17) | (h << 15): rotate right by 17 bits
Rotr17(h) == Or32(Shr32(h, 17), Shl32(h, 15))

(***************************************************************************)
(* size_t and char conversions                                             *)
(***************************************************************************)
\* a < b as size_t values (unsigned 64-bit comparison of the representatives)
SizeLess(a, b) == IF (a >= 0) = (b >= 0) THEN a < b ELSE b < 0

\* s / 8 as size_t, for a representative s >= 0
SizeDiv8(s) == s \div 8

\* s / 8 for a representative s < 0 is 2^61 - ceil(-s / 8): a byte count that
\* no resize() can satisfy (std::length_error or std::bad_alloc is thrown)
Unallocatable(s) == s < 0

\* size_t k = array[len-1]: a char (signed in this build, as on x86-64)
\* sign-extended to size_t; bytes 128..255 become 2^64 - 256 + b
CharToSize(b) == IF b >= 128 THEN b - 256 ELSE b

(***************************************************************************)
(* BloomFilter::BloomFilter                                                *)
(***************************************************************************)
\* static_cast<size_t>(bits_per_key * 0.69).  The product is truncated
\* towards zero; a truncated value below zero is not representable in
\* size_t and the conversion is then undefined: builds either saturate to 0
\* (AArch64 fcvtzu) or keep the two's complement of the truncated value
\* (x86-64 cvttsd2si).  0.69 is not exactly representable, but no product
\* bits_per_key * 0.69 with a result below 31 is a whole number, so the
\* truncation is that of the exact product bits_per_key * 69 / 100.
DoubleToSize(bits_per_key) ==
    IF bits_per_key >= 0 THEN { (bits_per_key * 69) \div 100 }
    ELSE IF (0 - bits_per_key) * 69 < 100 THEN { 0 }
    ELSE { 0, 0 - (((0 - bits_per_key) * 69) \div 100) }

\* if (k_ < 1) k_ = 1;
ClampLow(k) == IF SizeLess(k, 1) THEN 1 ELSE k

\* ClampHigh with the upper clamp left out
NoClampHigh(k) == k

\* if (k_ > 30) k_ = 30;
ClampHigh(k) == IF SizeLess(30, k) THEN 30 ELSE k

\* the objects the constructor can produce for an argument bits_per_key
BloomFilter(bits_per_key) ==
    { [bits_per_key_ |-> bits_per_key, k_ |-> ClampHigh(ClampLow(k))] :
        k \in DoubleToSize(bits_per_key) }

(***************************************************************************)
(* BloomFilter::CreateFilter                                               *)
(***************************************************************************)
\* dst->resize(size, 0)
Resize(dst, size) ==
    IF size <= Len(dst) THEN SubSeq(dst, 1, size)
    ELSE dst \o [i \in 1..(size - Len(dst)) |-> 0]

\* the argument of resize: init_size + bytes
NewSize(init_size, bytes) == init_size + bytes

\* (bits + 7) / 8, for a sum that did not leave the allocatable range
RoundUpBytes(bits) == SizeDiv8(bits + 7)

\* MinBits without the minimum filter length
NoMinBits(bits) == bits

\* if (bits < 64) bits = 64;
MinBits(bits) == IF SizeLess(bits, 64) THEN 64 ELSE bits

\* ArrayIndex with array = &(*dst)[0]
ArrayIndexFromStart(init_size, idx) == idx + 1

\* the position in dst (sequences count from 1) of array[idx], where
\* array = &(*dst)[init_size]
ArrayIndex(init_size, idx) == init_size + idx + 1

\* array[idx] |= (1 << bit).  A write past the end of the string's bytes is
\* a write to memory the string does not own: the run is lost ("oob").
OrByte(st, init_size, idx, bit) ==
    IF ArrayIndex(init_size, idx) \in 1..Len(st.dst)
    THEN [st EXCEPT !.dst[ArrayIndex(init_size, idx)] = OrBit(@, bit)]
    ELSE [st EXCEPT !.status = "oob"]

\* const uint32_t bitpos = h % bits; array[bitpos/8] |= (1 << (bitpos % 8));
\* With bits = 0 the remainder is undefined: the build either traps
\* (divzero = "trap", x86-64 div raises SIGFPE) or computes h - (h/0)*0 with
\* a zero quotient (divzero = "wrap", AArch64 udiv/msub), leaving bitpos = h.
SetProbe(st, init_size, h, bits, divzero) ==
    IF bits = 0
    THEN IF divzero = "trap" THEN [st EXCEPT !.status = "sigfpe"]
         ELSE IF h[1] = 0 THEN OrByte(st, init_size, h[2] \div 8, h[2] % 8)
         ELSE [st EXCEPT !.status = "oob"]
    ELSE LET bitpos == Mod32(h, bits)
         IN  OrByte(st, init_size, bitpos \div 8, bitpos % 8)

RECURSIVE ProbeLoopNoStep(_, _, _, _, _, _, _, _)
\* ProbeLoop without h += delta
ProbeLoopNoStep(st, init_size, h, delta, j, k, bits, divzero) ==
    IF j >= k \/ st.status # "ok" THEN st
    ELSE ProbeLoopNoStep(SetProbe(st, init_size, h, bits, divzero), init_size,
                         h, delta, j + 1, k, bits, divzero)

RECURSIVE ProbeLoop(_, _, _, _, _, _, _, _)
\* for (size_t j = 0; j < k_; j++) { ...; h += delta; }
ProbeLoop(st, init_size, h, delta, j, k, bits, divzero) ==
    IF j >= k \/ st.status # "ok" THEN st
    ELSE ProbeLoop(SetProbe(st, init_size, h, bits, divzero), init_size,
                   Add32(h, delta), delta, j + 1, k, bits, divzero)

RECURSIVE KeysLoop(_, _, _, _, _, _, _, _)
\* for (int i = 0; i < n; i++) { h = BloomHash(keys[i]); delta = ...; ... }
KeysLoop(st, init_size, keys, i, n, k, bits, divzero) ==
    IF i >= n \/ st.status # "ok" THEN st
    ELSE LET h == BloomHash(keys[i + 1])
         IN  KeysLoop(ProbeLoop(st, init_size, h, Rotr17(h), 0, k, bits, divzero),
                      init_size, keys, i + 1, n, k, bits, divzero)

\* The whole of CreateFilter (both overloads have the same body): the
\* buffer it leaves behind and how the call ended
\*   "ok"        returned
\*   "bad_alloc" resize threw, dst untouched
\*   "sigfpe"    trapped in h % bits
\*   "oob"       wrote outside the string
CreateFilterResult(self, keys, n, dst, divzero) ==
    LET bits0 == MinBits(n * self.bits_per_key_)
    IN  IF Unallocatable(bits0 + 7)
        THEN [dst |-> dst, status |-> "bad_alloc"]
        ELSE LET bytes == RoundUpBytes(bits0)
                 bits == bytes * 8
                 init_size == Len(dst)
                 grown == Append(Resize(dst, NewSize(init_size, bytes)), self.k_)
             IN  KeysLoop([dst |-> grown, status |-> "ok"], init_size,
                          keys, 0, n, self.k_, bits, divzero)

(***************************************************************************)
(* BloomFilter::KeyMayMatch                                                *)
(***************************************************************************)
\* QueryBits that counts the trailing byte as bit data
QueryBitsWithProbeByte(len) == len * 8

\* const size_t bits = (len - 1) * 8;
QueryBits(len) == (len - 1) * 8

\* ReservedEncoding with the threshold off by one: k > 31
ReservedAbove31(k) == SizeLess(31, k)

\* if (k > 30): reserved for new encodings
ReservedEncoding(k) == SizeLess(30, k)

\* ShortFilterResult for a reader that treats a short filter as a match
ShortFilterMatch == TRUE

\* the value returned for len < 2
ShortFilterResult == FALSE

RECURSIVE MatchLoopNoStep(_, _, _, _, _, _)
\* MatchLoop without h += delta
MatchLoopNoStep(array, h, delta, j, k, bits) ==
    IF j >= k THEN TRUE
    ELSE LET bitpos == Mod32(h, bits)
         IN  IF AndBit(array[(bitpos \div 8) + 1], bitpos % 8) = 0
             THEN FALSE
             ELSE MatchLoopNoStep(array, h, delta, j + 1, k, bits)

RECURSIVE MatchLoop(_, _, _, _, _, _)
\* for (size_t j = 0; j < k; j++) { if (bit is 0) return false; h += delta; }
\* return true;
MatchLoop(array, h, delta, j, k, bits) ==
    IF j >= k THEN TRUE
    ELSE LET bitpos == Mod32(h, bits)
         IN  IF AndBit(array[(bitpos \div 8) + 1], bitpos % 8) = 0
             THEN FALSE
             ELSE MatchLoop(array, Add32(h, delta), delta, j + 1, k, bits)

\* KeyMayMatchResult probing self.k_ times instead of the encoded count
KeyMayMatchOwnK(self, key, bloom_filter) ==
    LET len == Len(bloom_filter)
    IN  IF len < 2 THEN ShortFilterResult
        ELSE LET k == CharToSize(bloom_filter[len])
                 h == BloomHash(key)
             IN  IF ReservedEncoding(k) THEN TRUE
                 ELSE MatchLoop(bloom_filter, h, Rotr17(h), 0, self.k_, QueryBits(len))

\* The whole of KeyMayMatch (both overloads have the same body).  self is
\* the object the method is called on; the body reads none of its fields.
KeyMayMatchResult(self, key, bloom_filter) ==
    LET len == Len(bloom_filter)
    IN  IF len < 2 THEN ShortFilterResult
        ELSE LET k == CharToSize(bloom_filter[len])
                 h == BloomHash(key)
             IN  IF ReservedEncoding(k) THEN TRUE
                 ELSE MatchLoop(bloom_filter, h, Rotr17(h), 0, k, QueryBits(len))

(***************************************************************************)
(* Inputs                                                                  *)
(***************************************************************************)
MaxKeys == 2         \* longest key vector handed to CreateFilter
MaxPrefix == 1       \* CreateFilter is called while dst holds at most this
MaxArrayLen == 2     \* longest hand-made bit array given to KeyMayMatch

Inst == {1, 2}       \* two BloomFilter objects

\* constructor arguments: negative, zero, and positive values on both
\* sides of the two clamps, for object 1; a small positive value for object 2
BitsPerKeyValues == {-8, -1, 0, 1, 2, 13, 20, 50}
BitsPerKeyValues2 == {2}

SeqsUpTo(S, len) == UNION { [1..l -> S] : l \in 0..len }

\* what the caller's buffer holds before any filter is appended
PriorContents == { <<>>, <<171>> }

\* bytes of hand-made bit arrays
ArrayBytes == {0, 183, 255}

\* filters handed to KeyMayMatch that no CreateFilter produced: too short
\* ones, and bit arrays followed by every possible trailing byte
FilterInputs ==
    { <<>> } \cup { <<b>> : b \in 0..255 } \cup
    { a \o <<b>> : a \in SeqsUpTo(ArrayBytes, MaxArrayLen) \ { <<>> }, b \in 0..255 }

(***************************************************************************)
(* State                                                                   *)
(***************************************************************************)
VARIABLES
    policy,     \* policy[i]: the fields bits_per_key_, k_ of object i
    dst,        \* the caller's buffer
    init_size,  \* offset in dst of the filter appended last
    keys,       \* arguments of the last CreateFilter call (n = keys.size())
    n,
    ktype,      \* its overload: "string" or "uint64"
    builder,    \* the object it was called on (0: no call yet)
    status,     \* how the last CreateFilter call ended
    op,         \* the last call made
    qinst,      \* arguments of the last KeyMayMatch call
    qkey,
    qtype,
    ret         \* and its result

vars == << policy, dst, init_size, keys, n, ktype, builder, status, op,
           qinst, qkey, qtype, ret >>

\* the byte slice KeyMayMatch is given: what was appended last, or the whole
\* buffer while nothing was appended
Filter == SubSeq(dst, init_size + 1, Len(dst))

InitWith(bpks1, bpks2, buffers) ==
    /\ \E p1 \in UNION { BloomFilter(b) : b \in bpks1 },
          p2 \in UNION { BloomFilter(b) : b \in bpks2 } :
         policy = (1 :> p1) @@ (2 :> p2)
    /\ dst \in buffers
    /\ init_size = 0
    /\ keys = <<>>
    /\ n = 0
    /\ ktype = "none"
    /\ builder = 0
    /\ status = "ok"
    /\ op = "new"
    /\ qinst = 0
    /\ qkey = <<>>
    /\ qtype = "none"
    /\ ret = FALSE

Init == InitWith(BitsPerKeyValues, BitsPerKeyValues2, PriorContents)

\* A run is followed up to its first call that does not return: a process
\* that trapped or corrupted its heap makes no further calls, and a call
\* that threw left dst as it was, so what follows it is what follows the
\* state before it.
Alive == status = "ok"

CreateFilterCall(i, type, ks) ==
    /\ Alive
    /\ Len(dst) <= MaxPrefix
    /\ \E divzero \in {"trap", "wrap"} :
         LET res == CreateFilterResult(policy[i], ks, Len(ks), dst, divzero)
         IN  /\ dst' = res.dst
             /\ status' = res.status
             /\ init_size' = IF res.status = "bad_alloc" THEN init_size ELSE Len(dst)
    /\ keys' = ks
    /\ n' = Len(ks)
    /\ ktype' = type
    /\ builder' = i
    /\ op' = "CreateFilter"
    /\ UNCHANGED << policy, qinst, qkey, qtype, ret >>

\* void CreateFilter(vector<string> keys, int n, string* dst) const
CreateFilter(i, ks) == CreateFilterCall(i, "string", ks)

\* void CreateFilter(vector<uint64_t> keys, int n, string* dst) const
CreateFilterU64(i, ks) == CreateFilterCall(i, "uint64", ks)

KeyMayMatchCall(i, type, key) ==
    /\ Alive
    /\ ret' = KeyMayMatchResult(policy[i], key, Filter)
    /\ qinst' = i
    /\ qkey' = key
    /\ qtype' = type
    /\ op' = "KeyMayMatch"
    /\ UNCHANGED << policy, dst, init_size, keys, n, ktype, builder, status >>

\* bool KeyMayMatch(const string& key, const string& bloom_filter) const
KeyMayMatch(i, key) == KeyMayMatchCall(i, "string", key)

\* bool KeyMayMatch(const uint64_t key, const string& bloom_filter) const
KeyMayMatchU64(i, key) == KeyMayMatchCall(i, "uint64", key)

Next ==
    \/ \E i \in Inst, ks \in SeqsUpTo(StringKeys, MaxKeys) : CreateFilter(i, ks)
    \/ \E i \in Inst, ks \in SeqsUpTo(U64Keys, MaxKeys) : CreateFilterU64(i, ks)
    \/ \E i \in Inst, key \in StringKeys : KeyMayMatch(i, key)
    \/ \E i \in Inst, key \in U64Keys : KeyMayMatchU64(i, key)

\* filters are built and then queried
Spec == Init /\ [][Next]_vars

\* KeyMayMatch on arbitrary filter bytes: the buffer starts as any of
\* FilterInputs and is only queried
QueryBitsPerKey == {2, 20}

InitQ == InitWith(QueryBitsPerKey, QueryBitsPerKey, FilterInputs)

NextQ ==
    \/ \E i \in Inst, key \in StringKeys : KeyMayMatch(i, key)
    \/ \E i \in Inst, key \in U64Keys : KeyMayMatchU64(i, key)

SpecQ == InitQ /\ [][NextQ]_vars

(***************************************************************************)
(* Properties                                                              *)
(***************************************************************************)
\* the last call was a CreateFilter that returned
Appended == op = "CreateFilter" /\ status = "ok"

\* a CreateFilter call returned (and its filter was possibly queried since)
Built == builder # 0 /\ status = "ok"

BitsPerKeyOfBuilder == policy[builder].bits_per_key_

\* number of bytes of the bit array appended last
BitArrayLen == Len(dst) - init_size - 1

\* bit p of the byte sequence array: bit p % 8 of byte p / 8
BitOf(array, p) == (array[(p \div 8) + 1] \div Pow2(p % 8)) % 2 = 1

\* the j-th probe position of key in a bit array of bits bits:
\* ((h + j * delta) mod 2^32) mod bits
ProbePos(key, j, bits) ==
    LET h == BloomHash(key)
    IN  Mod32(Add32(h, Mul32(<< 0, j >>, Rotr17(h))), bits)

IsKeyOfBuild(key, type) == type = ktype /\ \E i \in 1..n : keys[i] = key

Clamp1To30(f) == IF f < 1 THEN 1 ELSE IF f > 30 THEN 30 ELSE f

\* floor(b * ln 2) for 1 <= b <= 199 (ln 2 = 0.693147...; no product is
\* within 10^-4 of a whole number there)
FloorLn2(b) == (b * 693147) \div 1000000

\* C1: no false negatives.  A key of the key vector that a policy with
\* positive bits_per_key built its filter from is reported present when
\* looked up (by the same overload) in exactly the appended bytes.
C1_NoFalseNegatives ==
    (/\ op = "KeyMayMatch"
     /\ Built
     /\ BitsPerKeyOfBuilder > 0
     /\ IsKeyOfBuild(qkey, qtype)) => ret = TRUE

C1_Witness ==
    /\ op = "KeyMayMatch"
    /\ Built
    /\ BitsPerKeyOfBuilder > 0
    /\ n = 2
    /\ keys[1] # keys[2]
    /\ ktype = "uint64"
    /\ IsKeyOfBuild(qkey, qtype)
    /\ qkey = keys[2]
    /\ ret = TRUE

\* C2: cross-policy independence.  The result of a KeyMayMatch call is the
\* result on every other object, whatever bits_per_key it was constructed
\* with; in particular a key of a filter built with bits_per_key = 20 is
\* reported present by an object constructed with bits_per_key = 2.
C2_CrossPolicy ==
    op = "KeyMayMatch" =>
        /\ \A b \in BitsPerKeyValues : \A self \in BloomFilter(b) :
               KeyMayMatchResult(self, qkey, Filter) = ret
        /\ (/\ Built
            /\ BitsPerKeyOfBuilder = 20
            /\ policy[qinst].bits_per_key_ = 2
            /\ IsKeyOfBuild(qkey, qtype)) => ret = TRUE

C2_Witness ==
    /\ op = "KeyMayMatch"
    /\ Built
    /\ BitsPerKeyOfBuilder = 20
    /\ policy[qinst].bits_per_key_ = 2
    /\ policy[qinst].k_ # policy[builder].k_
    /\ n = 2
    /\ IsKeyOfBuild(qkey, qtype)
    /\ ret = TRUE

\* C3: appended size.  With positive bits_per_key, CreateFilter grows dst by
\* ceil(max(n * bits_per_key, 64) / 8) + 1 bytes: the bit array is the least
\* whole number of bytes holding max(n * bits_per_key, 64) bits, never less
\* than 8 bytes, and exactly 8 bytes when n * bits_per_key <= 64.
C3_AppendedSize ==
    (Appended /\ BitsPerKeyOfBuilder > 0) =>
        LET product == n * BitsPerKeyOfBuilder
            want == IF product < 64 THEN 64 ELSE product
        IN  /\ Len(dst) - init_size = BitArrayLen + 1
            /\ 8 * BitArrayLen >= want
            /\ 8 * (BitArrayLen - 1) < want
            /\ BitArrayLen >= 8
            /\ (product <= 64 => BitArrayLen = 8)

C3_Witness ==
    /\ Appended
    /\ BitsPerKeyOfBuilder > 0
    /\ n * BitsPerKeyOfBuilder > 64
    /\ (n * BitsPerKeyOfBuilder) % 8 # 0
    /\ init_size > 0

\* C4: frame of build.  No step changes or removes a byte that dst already
\* held: the old contents are a prefix of the new contents.
C4_Frame ==
    [][/\ Len(dst') >= Len(dst)
       /\ SubSeq(dst', 1, Len(dst)) = dst]_vars

C4_Witness ==
    /\ Appended
    /\ init_size > 0
    /\ n = 2
    /\ policy[builder].k_ = 30

\* C5: degenerate configuration is well-defined.  Whatever bits_per_key the
\* object was constructed with (zero and negative values included), every
\* CreateFilter call returns, the probe count is in 1..30, and a bit array
\* of at least 64 bits followed by the probe-count byte was appended.
C5_DegenerateWellDefined ==
    op = "CreateFilter" =>
        /\ status = "ok"
        /\ policy[builder].k_ \in 1..30
        /\ BitArrayLen >= 8
        /\ dst[Len(dst)] = policy[builder].k_

\* C6 as stated: with positive bits_per_key, the probe count, and the
\* trailing byte CreateFilter writes, is floor(bits_per_key * ln 2) clamped
\* to 1..30.
C6_ProbesFloorLn2 ==
    (Appended /\ BitsPerKeyOfBuilder > 0) =>
        /\ policy[builder].k_ = Clamp1To30(FloorLn2(BitsPerKeyOfBuilder))
        /\ dst[Len(dst)] = Clamp1To30(FloorLn2(BitsPerKeyOfBuilder))

\* C6 as amended: with positive bits_per_key, the probe count, and the
\* trailing byte CreateFilter writes, is floor(bits_per_key * 0.69) clamped
\* to 1..30, where f = floor(bits_per_key * 0.69) is the whole number with
\* 100 * f <= 69 * bits_per_key < 100 * (f + 1).
C6_ProbesFloor069 ==
    (Appended /\ BitsPerKeyOfBuilder > 0) =>
        \E f \in 0..BitsPerKeyOfBuilder :
            /\ 100 * f <= 69 * BitsPerKeyOfBuilder
            /\ 69 * BitsPerKeyOfBuilder < 100 * (f + 1)
            /\ policy[builder].k_ = Clamp1To30(f)
            /\ dst[Len(dst)] = Clamp1To30(f)

C6_Witness ==
    /\ Appended
    /\ BitsPerKeyOfBuilder = 13
    /\ policy[builder].k_ = 8
    /\ dst[Len(dst)] = 8

\* C7: reserved encoding passthrough.  On a filter of at least 2 bytes
\* whose last byte is above 30, KeyMayMatch returns true for every key.
C7_ReservedPassthrough ==
    (/\ op = "KeyMayMatch"
     /\ Len(Filter) >= 2
     /\ Filter[Len(Filter)] > 30) => ret = TRUE

C7_Witness ==
    /\ op = "KeyMayMatch"
    /\ Len(Filter) = 3
    /\ Filter[3] = 31
    /\ Filter[1] = 0
    /\ Filter[2] = 0
    /\ ret = TRUE

\* C8: too-short filter.  On a filter of 0 or 1 bytes KeyMayMatch returns
\* false for every key, whatever the byte.
C8_TooShort ==
    (op = "KeyMayMatch" /\ Len(Filter) < 2) => ret = FALSE

C8_Witness ==
    /\ op = "KeyMayMatch"
    /\ Len(Filter) = 1
    /\ Filter[1] = 255
    /\ ret = FALSE

\* C9: build sets exactly the probe bits.  After CreateFilter with positive
\* bits_per_key, the set bits of the appended bit array are exactly the
\* positions ((h + j * delta) mod 2^32) mod total_bits of the keys, for
\* j in 0..num_probes-1.  Hence building the keys in reverse order on the
\* same prior contents gives the same bytes, and every query on a filter
\* built from no keys returns false.
C9_ExactProbeBits ==
    /\ (Appended /\ BitsPerKeyOfBuilder > 0) =>
          LET bits == 8 * BitArrayLen
              array == SubSeq(dst, init_size + 1, Len(dst) - 1)
              reversed == [i \in 1..n |-> keys[n + 1 - i]]
          IN  /\ { p \in 0..(bits - 1) : BitOf(array, p) }
                 = { ProbePos(keys[i], j, bits) :
                       i \in 1..n, j \in 0..(policy[builder].k_ - 1) }
              /\ CreateFilterResult(policy[builder], reversed, n,
                                    SubSeq(dst, 1, init_size), "trap").dst = dst
    /\ (op = "KeyMayMatch" /\ Built /\ BitsPerKeyOfBuilder > 0 /\ n = 0) =>
          ret = FALSE

C9_Witness ==
    /\ Appended
    /\ BitsPerKeyOfBuilder > 0
    /\ policy[builder].k_ > 1
    /\ n = 2
    /\ keys[1] # keys[2]
    /\ \E p \in 0..(8 * BitArrayLen - 1) : BitOf(Filter, p)
    /\ \E p \in 0..(8 * BitArrayLen - 1) : ~BitOf(Filter, p)

\* C10: query tests exactly the embedded number of probes.  On a filter of
\* L >= 2 bytes whose last byte k is in 0..30, KeyMayMatch returns true
\* exactly when every position ((h + j * delta) mod 2^32) mod ((L-1) * 8),
\* j in 0..k-1, is a set bit of the first L-1 bytes (so always for k = 0).
C10_QueryExactProbes ==
    (/\ op = "KeyMayMatch"
     /\ Len(Filter) >= 2
     /\ Filter[Len(Filter)] \in 0..30) =>
        LET L == Len(Filter)
            k == Filter[L]
            array == SubSeq(Filter, 1, L - 1)
        IN  ret = (\A j \in 0..(k - 1) : BitOf(array, ProbePos(qkey, j, (L - 1) * 8)))

\* a query that found its first probe bit set and a later one clear
C10_Witness ==
    /\ op = "KeyMayMatch"
    /\ Len(Filter) = 3
    /\ Filter[3] \in 2..30
    /\ BitOf(Filter, ProbePos(qkey, 0, 16))
    /\ ret = FALSE
====
